---------------------------- MODULE Spec2Model ----------------------------
(***************************************************************************)
(* A model of the sasmodels excerpts:                                      *)
(*   sasmodels/models/core_shell_ellipsoid.py  (module attributes, ER)     *)
(*   sasmodels/models/cylinder.py              (ER, INFO)                  *)
(*   doc/genapi.py                             (genfiles)                  *)
(*                                                                         *)
(* Importing a model module executes its top-level statements in order;    *)
(* each statement binds names in the module namespace.  Once a module is   *)
(* imported its ER function can be called.  genfiles writes the api .rst   *)
(* files.                                                                  *)
(*                                                                         *)
(* Numbers of the parameter tables, of demo and of the tests' overrides    *)
(* are written in thousandths (6.3 is 6300, 0.001 is 1), so that the       *)
(* python literals 200 and 200.0 are the same value.  A bound of a         *)
(* parameter row is an extended number <<s, v>>: s = 0 for the finite      *)
(* value v, s = 1 for +inf, s = -1 for -inf.                               *)
(***************************************************************************)
EXTENDS Integers, Sequences, FiniteSets, TLC

VARIABLES
    cse_pc,     \* number of top-level statements of core_shell_ellipsoid.py executed
    cse_ns,     \* namespace of module core_shell_ellipsoid: name -> value
    cyl_pc,     \* number of top-level statements of cylinder.py executed
    cyl_ns,     \* namespace of module cylinder: name -> value
    imported,   \* sys.modules: the modules imported so far
    prev,       \* the ER call before the last one (observation)
    last,       \* the last ER call: [fn, args, imports, result], imports being
                \* the modules the call added to sys.modules (observation)
    gen_pc,     \* genfiles: position in the function body
    gen_in,     \* genfiles: its arguments [package, package_name, modules, dir]
    gen_i,      \* genfiles: number of entries of modules the for loop has handled
    dirs,       \* file system: the directories that exist
    files,      \* file system: path -> content of the files that exist
    writes      \* file system: the paths written to, in order (observation)

vars == <<cse_pc, cse_ns, cyl_pc, cyl_ns, imported, prev, last,
          gen_pc, gen_in, gen_i, dirs, files, writes>>

modelVars == <<cse_pc, cse_ns, cyl_pc, cyl_ns, imported, prev, last>>
genVars == <<gen_pc, gen_in, gen_i, dirs, files, writes>>

-----------------------------------------------------------------------------
(* Extended numbers: python floats with numpy's inf. *)

Fin(v) == <<0, v>>
inf == <<1, 0>>
neg_inf == <<-1, 0>>

\* a <= b on extended numbers, as python compares floats
Le(a, b) == \/ a[1] < b[1]
            \/ a[1] = b[1] /\ (a[1] # 0 \/ a[2] <= b[2])

\* pylint's row layout: ["name", "units", default, [lower, upper], "type", "description"]
Row(n, u, d, lo, hi, t, desc) ==
    [name |-> n, units |-> u, default |-> d, lower |-> lo, upper |-> hi,
     type |-> t, description |-> desc]

EmptyNs == [n \in {} |-> 0]

\* dict/namespace update: the bindings of b override those of ns
Bind(ns, b) == b @@ ns

NoCall == [fn |-> "none"]

-----------------------------------------------------------------------------
(* core_shell_ellipsoid.py *)

cse_parameters_bad_default ==
    <<Row("radius_equat_core", "Ang", 200000, Fin(0), inf, "volume", "Equatorial radius of core, r minor core"),
      Row("radius_polar_core", "Ang", 10000, Fin(0), inf, "volume", "Polar radius of core, r major core"),
      Row("radius_equat_shell", "Ang", 250000, Fin(0), inf, "volume", "Equatorial radius of shell, r minor outer"),
      Row("radius_polar_shell", "Ang", -30000, Fin(0), inf, "volume", "Polar radius of shell, r major outer"),
      Row("sld_core", "1e-6/Ang^2", 2000, neg_inf, inf, "sld", "Core scattering length density"),
      Row("sld_shell", "1e-6/Ang^2", 1000, neg_inf, inf, "sld", "Shell scattering length density"),
      Row("sld_solvent", "1e-6/Ang^2", 6300, neg_inf, inf, "sld", "Solvent scattering length density"),
      Row("theta", "degrees", 0, neg_inf, inf, "orientation", "Oblate orientation wrt incoming beam"),
      Row("phi", "degrees", 0, neg_inf, inf, "orientation", "Oblate orientation in the plane of the detector")>>

cse_parameters ==
    <<Row("radius_equat_core", "Ang", 200000, Fin(0), inf, "volume", "Equatorial radius of core, r minor core"),
      Row("radius_polar_core", "Ang", 10000, Fin(0), inf, "volume", "Polar radius of core, r major core"),
      Row("radius_equat_shell", "Ang", 250000, Fin(0), inf, "volume", "Equatorial radius of shell, r minor outer"),
      Row("radius_polar_shell", "Ang", 30000, Fin(0), inf, "volume", "Polar radius of shell, r major outer"),
      Row("sld_core", "1e-6/Ang^2", 2000, neg_inf, inf, "sld", "Core scattering length density"),
      Row("sld_shell", "1e-6/Ang^2", 1000, neg_inf, inf, "sld", "Shell scattering length density"),
      Row("sld_solvent", "1e-6/Ang^2", 6300, neg_inf, inf, "sld", "Solvent scattering length density"),
      Row("theta", "degrees", 0, neg_inf, inf, "orientation", "Oblate orientation wrt incoming beam"),
      Row("phi", "degrees", 0, neg_inf, inf, "orientation", "Oblate orientation in the plane of the detector")>>

cse_source == <<"lib/sph_j1c.c", "lib/gfn.c", "lib/gauss76.c", "core_shell_ellipsoid.c">>

cse_demo_stale ==
    [scale |-> 1000, background |-> 1,
     radius_equat_core |-> 200000,
     radius_polar_core |-> 20000,
     radius_equat_shell |-> 250000,
     radius_polar_shell |-> 30000,
     sld_core |-> 2000,
     sld_shell |-> 1000,
     sld_solvent |-> 6300,
     theta |-> 0,
     phi |-> 0]

cse_demo ==
    [scale |-> 1000, background |-> 1,
     radius_equat_core |-> 200000,
     radius_polar_core |-> 10000,
     radius_equat_shell |-> 250000,
     radius_polar_shell |-> 30000,
     sld_core |-> 2000,
     sld_shell |-> 1000,
     sld_solvent |-> 6300,
     theta |-> 0,
     phi |-> 0]

\* One entry of tests: [overrides, q, expected].  q is a scalar or the pair
\* (qx, qy); a scalar q and the expected intensity are kept as their literals.
Test(p, qv, e) == [pars |-> p, q |-> qv, expected |-> e]

cse_tests_typo(qx, qy) ==
    <<Test([radius_equat_core |-> 200000, radius_polar_core |-> 20000,
            radius_equat_shell |-> 250000, radius_polar_shell |-> 30000,
            sld_core |-> 2000, sld_shell |-> 1000, sld_solvent |-> 6300,
            background |-> 1, scale |-> 1000],
           <<"1.0">>, "0.00189402"),
      Test([background |-> 10], <<"0.1">>, "8.86741"),
      Test([radius_equat_core |-> 20000, radius_polar_core |-> 200000,
            radius_equat_shell |-> 54000, radius_polar_shell |-> 3000,
            sld_core |-> 20000, sld_shell |-> 10000, sld_solvent |-> 6000,
            background |-> 0, scale |-> 1000],
           <<"0.01">>, "26150.4"),
      Test([background |-> 1], <<"0.4", "0.5">>, "0.00170471"),
      Test([radius_equat_core |-> 20000, radius_polar_core |-> 200000,
            radius_equat_shell |-> 54000, radius_polar_shell |-> 3000,
            sld_core |-> 20000, sld_shell |-> 10000, sld_solvant |-> 6000,
            background |-> 10, scale |-> 10],
           <<qx, qy>>, "0.105764")>>

cse_tests(qx, qy) ==
    <<Test([radius_equat_core |-> 200000, radius_polar_core |-> 20000,
            radius_equat_shell |-> 250000, radius_polar_shell |-> 30000,
            sld_core |-> 2000, sld_shell |-> 1000, sld_solvent |-> 6300,
            background |-> 1, scale |-> 1000],
           <<"1.0">>, "0.00189402"),
      Test([background |-> 10], <<"0.1">>, "8.86741"),
      Test([radius_equat_core |-> 20000, radius_polar_core |-> 200000,
            radius_equat_shell |-> 54000, radius_polar_shell |-> 3000,
            sld_core |-> 20000, sld_shell |-> 10000, sld_solvent |-> 6000,
            background |-> 0, scale |-> 1000],
           <<"0.01">>, "26150.4"),
      Test([background |-> 1], <<"0.4", "0.5">>, "0.00170471"),
      Test([radius_equat_core |-> 20000, radius_polar_core |-> 200000,
            radius_equat_shell |-> 54000, radius_polar_shell |-> 3000,
            sld_core |-> 20000, sld_shell |-> 10000, sld_solvent |-> 6000,
            background |-> 10, scale |-> 10],
           <<qx, qy>>, "0.105764")>>

\* def ER(radius_equat_core, radius_polar_core, radius_equat_shell, radius_polar_shell)
cse_ER_def ==
    [def |-> "ER",
     params |-> <<"radius_equat_core", "radius_polar_core",
                  "radius_equat_shell", "radius_polar_shell">>]

\* the top-level statements of the module, in file order
cse_order_no_category ==
    <<"import", "name", "title", "description", "parameters", "source",
      "ER", "demo", "q", "phi", "qx", "qy", "tests">>

cse_order ==
    <<"import", "name", "title", "description", "category", "parameters", "source",
      "ER", "demo", "q", "phi", "qx", "qy", "tests">>

\* The names statement s binds, with their values, when run in namespace ns.
\* (The description's text is abridged to its first sentence.)
cse_stmt(s, ns) ==
    CASE s = "import" ->
           [inf |-> inf, sin |-> "numpy.sin", cos |-> "numpy.cos", pi |-> "numpy.pi"]
      [] s = "name" -> [name |-> "core_shell_ellipsoid"]
      [] s = "title" ->
           [title |-> "Form factor for an spheroid ellipsoid particle with a core shell structure."]
      [] s = "description" ->
           [description |-> "[SpheroidCoreShellModel] Calculates the form factor for an spheroid ellipsoid particle with a core_shell structure."]
      [] s = "category" -> [category |-> "shape:ellipsoid"]
      [] s = "parameters" -> [parameters |-> cse_parameters]
      [] s = "source" -> [source |-> cse_source]
      [] s = "ER" -> [ER |-> cse_ER_def]
      [] s = "demo" -> [demo |-> cse_demo]
      [] s = "q" -> [q |-> "0.1"]
      [] s = "phi" -> [phi |-> <<"/", ns["pi"], "6">>]
      [] s = "qx" -> [qx |-> <<"*", ns["q"], <<ns["cos"], ns["phi"]>>>>]
      [] s = "qy" -> [qy |-> <<"*", ns["q"], <<ns["sin"], ns["phi"]>>>>]
      [] s = "tests" -> [tests |-> cse_tests(ns["qx"], ns["qy"])]

\* sasmodels/models/ellipsoid.py is not among the files: the shared ellipsoid ER
\* is kept as the application of that routine to its two arguments, in order.
ellipsoid_ER(radius_polar, radius_equatorial) ==
    [fn |-> "ellipsoid.ER",
     radius_polar |-> radius_polar, radius_equatorial |-> radius_equatorial]

cse_ER_swapped(radius_equat_core, radius_polar_core, radius_equat_shell, radius_polar_shell) ==
    ellipsoid_ER(radius_equat_shell, radius_polar_shell)

cse_ER_checked(radius_equat_core, radius_polar_core, radius_equat_shell, radius_polar_shell) ==
    IF radius_polar_shell < radius_polar_core \/ radius_equat_shell < radius_equat_core
    THEN [exc |-> "ValueError"]
    ELSE ellipsoid_ER(radius_polar_shell, radius_equat_shell)

cse_ER(radius_equat_core, radius_polar_core, radius_equat_shell, radius_polar_shell) ==
    ellipsoid_ER(radius_polar_shell, radius_equat_shell)

-----------------------------------------------------------------------------
(* cylinder.py *)

\* Numbers a + b*pi with integer a, b, written <<a, b>>.
N(k) == <<k, 0>>
pi == <<0, 1>>
PAdd(x, y) == <<x[1] + y[1], x[2] + y[2]>>
\* the product, for factors of which at most one has a pi part
PMul(x, y) == <<x[1] * y[1], x[1] * y[2] + x[2] * y[1]>>

\* numpy's pi as the fraction PiNum/PiDen
PiNum == 355
PiDen == 113

\* the largest n >= k with n^3 <= x/d
RECURSIVE CbrtFrom(_, _, _)
CbrtFrom(k, x, d) ==
    IF (k + 1) * (k + 1) * (k + 1) * d <= x THEN CbrtFrom(k + 1, x, d) ELSE k

\* floor(v^(1/3)) for v = (a + b*pi)/4 >= 0
Cbrt4(v) == CbrtFrom(0, PiDen * v[1] + PiNum * v[2], 4 * PiDen)

\* ER's value 0.5 * ddd^(1/3) is kept as ddd4 = 4*ddd (0.75 is 3/4), exactly,
\* and twice = floor(2 * ER).
cyl_ER_dropped_term(radius, length) ==
    LET ddd4 == PMul(N(3 * radius),
                     PAdd(N(radius * length),
                          PMul(N(length + radius),
                               PAdd(N(length), PMul(pi, N(radius))))))
    IN  [ddd4 |-> ddd4, twice |-> Cbrt4(ddd4)]

cyl_ER_stateful(radius, length) ==
    LET ddd4 == PMul(N(3 * radius),
                     PAdd(N(2 * radius * length),
                          PMul(N(length + radius),
                               PAdd(N(length), PMul(pi, N(radius))))))
    IN  [ddd4 |-> ddd4, twice |-> Cbrt4(ddd4) + Cardinality(imported)]

cyl_ER(radius, length) ==
    LET ddd4 == PMul(N(3 * radius),
                     PAdd(N(2 * radius * length),
                          PMul(N(length + radius),
                               PAdd(N(length), PMul(pi, N(radius))))))
    IN  [ddd4 |-> ddd4, twice |-> Cbrt4(ddd4)]

cyl_ER_def == [def |-> "ER", params |-> <<"radius", "length">>]

cyl_parameters ==
    <<Row("sld", "1e-6/Ang^2", 4000, neg_inf, inf, "", "Cylinder scattering length density"),
      Row("solvent_sld", "1e-6/Ang^2", 1000, neg_inf, inf, "", "Solvent scattering length density"),
      Row("radius", "Ang", 20000, Fin(0), inf, "volume", "Cylinder radius"),
      Row("length", "Ang", 400000, Fin(0), inf, "volume", "Cylinder length"),
      Row("theta", "degrees", 60000, neg_inf, inf, "orientation", "In plane angle"),
      Row("phi", "degrees", 60000, neg_inf, inf, "orientation", "Out of plane angle")>>

\* the INFO dictionary (the description's text is abridged to its first line)
cyl_INFO(ER) ==
    [name |-> "cylinder",
     title |-> "Cylinder with uniform scattering length density",
     source |-> <<"lib/J1.c", "lib/gauss76.c", "lib/cylkernel.c", "cylinder.c">>,
     parameters |-> cyl_parameters,
     description |-> "f(q)= 2*(sldCyl - sldSolv)*V*sin(qLcos(alpha/2))/[qLcos(alpha/2)]*J1(qRsin(alpha/2))/[qRsin(alpha)]",
     ER |-> ER]

cyl_order == <<"import", "ER", "INFO">>

cyl_stmt(s, ns) ==
    CASE s = "import" -> [pi |-> "numpy.pi", inf |-> inf]
      [] s = "ER" -> [ER |-> cyl_ER_def]
      [] s = "INFO" -> [INFO |-> cyl_INFO(ns["ER"])]

-----------------------------------------------------------------------------
(* Importing the model modules and calling their ER functions *)

\* largest of the small dimensions tried besides the tables' own values
MaxDim == 2

cse_loaded == cse_pc = Len(cse_order)
cyl_loaded == cyl_pc = Len(cyl_order)

\* The interpreter runs one module body at a time, and nothing else while it
\* runs: a module whose import has begun is run to its end first.
cse_importing == 0 < cse_pc /\ cse_pc < Len(cse_order)
cyl_importing == 0 < cyl_pc /\ cyl_pc < Len(cyl_order)

ParNames(table) == {table[i].name : i \in DOMAIN table}
RowOf(table, n) == table[CHOOSE i \in DOMAIN table : table[i].name = n]

\* A test's overrides merged onto the table's defaults: the parameters the
\* test evaluates the model with.
Merged(t, table) == t.pars @@ [n \in ParNames(table) |-> RowOf(table, n).default]

Radii(ec, pc, es, ps) ==
    [radius_equat_core |-> ec, radius_polar_core |-> pc,
     radius_equat_shell |-> es, radius_polar_shell |-> ps]

\* Arguments ER is tried on: the radii of each of the module's own tests, and
\* those with one radius replaced by a small value.
CseArgs ==
    LET tests == cse_ns["tests"]
        pars(i) == Merged(tests[i], cse_ns["parameters"])
        configs == {Radii(pars(i)["radius_equat_core"], pars(i)["radius_polar_core"],
                          pars(i)["radius_equat_shell"], pars(i)["radius_polar_shell"])
                    : i \in DOMAIN tests}
        params == {cse_ns["ER"].params[i] : i \in DOMAIN cse_ns["ER"].params}
    IN  configs \cup {[c EXCEPT ![f] = 1000 * k] : c \in configs, f \in params, k \in 0..MaxDim}

\* Dimensions in Ang: the table's defaults (radius 20, length 400) and a grid.
CylRadii ==
    (0..MaxDim) \cup {RowOf(cyl_ns["INFO"].parameters, "radius").default \div 1000}
CylLengths ==
    (0..MaxDim) \cup {RowOf(cyl_ns["INFO"].parameters, "length").default \div 1000}

\* import sasmodels.models.core_shell_ellipsoid: the next top-level statement
CseExec ==
    /\ cse_pc < Len(cse_order)
    /\ ~cyl_importing
    /\ LET s == cse_order[cse_pc + 1]
       IN  /\ cse_ns' = Bind(cse_ns, cse_stmt(s, cse_ns))
           /\ imported' = IF s = "import"
                          THEN imported \cup {"sasmodels.models.core_shell_ellipsoid", "numpy"}
                          ELSE imported
    /\ cse_pc' = cse_pc + 1
    /\ UNCHANGED <<cyl_pc, cyl_ns, prev, last, genVars>>

\* import sasmodels.models.cylinder: the next top-level statement
CylExec ==
    /\ cyl_pc < Len(cyl_order)
    /\ ~cse_importing
    /\ LET s == cyl_order[cyl_pc + 1]
       IN  /\ cyl_ns' = Bind(cyl_ns, cyl_stmt(s, cyl_ns))
           /\ imported' = IF s = "import"
                          THEN imported \cup {"sasmodels.models.cylinder", "numpy"}
                          ELSE imported
    /\ cyl_pc' = cyl_pc + 1
    /\ UNCHANGED <<cse_pc, cse_ns, prev, last, genVars>>

\* core_shell_ellipsoid.ER(...) on an imported module; its body imports
\* .ellipsoid, which enters sys.modules on the first call.
CallCseER ==
    /\ cse_loaded
    /\ ~cyl_importing
    /\ \E a \in CseArgs :
          last' = [fn |-> "core_shell_ellipsoid.ER", args |-> a,
                   imports |-> {"sasmodels.models.ellipsoid"} \ imported,
                   result |-> cse_ER(a.radius_equat_core, a.radius_polar_core,
                                     a.radius_equat_shell, a.radius_polar_shell)]
    /\ prev' = last
    /\ imported' = imported \cup {"sasmodels.models.ellipsoid"}
    /\ UNCHANGED <<cse_pc, cse_ns, cyl_pc, cyl_ns, genVars>>

\* cylinder.ER(radius, length) on an imported module
CallCylER ==
    /\ cyl_loaded
    /\ ~cse_importing
    /\ \E radius \in CylRadii, length \in CylLengths :
          last' = [fn |-> "cylinder.ER", args |-> [radius |-> radius, length |-> length],
                   imports |-> {},
                   result |-> cyl_ER(radius, length)]
    /\ prev' = last
    /\ UNCHANGED <<cse_pc, cse_ns, cyl_pc, cyl_ns, imported, genVars>>

GenIdle ==
    /\ gen_pc = "idle"
    /\ gen_in = [package |-> "", package_name |-> "", modules |-> <<>>, dir |-> ""]
    /\ gen_i = 0
    /\ dirs = {}
    /\ files = EmptyNs
    /\ writes = <<>>

Init ==
    /\ cse_pc = 0
    /\ cse_ns = EmptyNs
    /\ cyl_pc = 0
    /\ cyl_ns = EmptyNs
    /\ imported = {}
    /\ prev = NoCall
    /\ last = NoCall
    /\ GenIdle

Next == CseExec \/ CylExec \/ CallCseER \/ CallCylER

Spec == Init /\ [][Next]_vars

-----------------------------------------------------------------------------
(* doc/genapi.py: genfiles(package, package_name, modules, dir) *)

\* longest generated list of modules
MaxModules == 2

\* the script's own list of (module, name) pairs
modules ==
    <<<<"__init__", "Sasmodels package">>,
      <<"bumps_model", "Bumps interface">>,
      <<"compare_many", "Batch compare models on different compute engines">>,
      <<"compare", "Compare models on different compute engines">>,
      <<"convert", "Sasview to sasmodel converter">>,
      <<"core", "Model access">>,
      <<"data", "Data layout and plotting routines">>,
      <<"details", "Parameter packing for kernel calls">>,
      <<"direct_model", "Simple interface">>,
      <<"exception", "Annotate exceptions">>,
      <<"generate", "Model parser">>,
      <<"kernel", "Evaluator type definitions">>,
      <<"kernelcl", "OpenCL model evaluator">>,
      <<"kerneldll", "Ctypes model evaluator">>,
      <<"kernelpy", "Python model evaluator">>,
      <<"list_pars", "Identify all parameters in all models">>,
      <<"mixture", "Mixture model evaluator">>,
      <<"model_test", "Unit test support">>,
      <<"modelinfo", "Parameter and model definitions">>,
      <<"product", "Product model evaluator">>,
      <<"resolution", "1-D resolution functions">>,
      <<"resolution2d", "2-D resolution functions">>,
      <<"rst2html", "Convert doc strings the web pages">>,
      <<"sasview_model", "Sasview interface">>,
      <<"sesans", "SESANS calculation routines">>,
      <<"weights", "Distribution functions">>>>

\* entries the generated lists are made of; a module called index shares its
\* file name with the index
Pool == {modules[6], modules[7], <<"index", "Index module">>}

ModuleLists == UNION {[1..k -> Pool] : k \in 0..MaxModules} \cup {modules}

\* os.path.join(dir, name)
join(dir, name) == dir \o "/" \o name

\* MODULE_TEMPLATE % locals(): the fields the template reads
MODULE_TEMPLATE(package, module, name) ==
    [template |-> "MODULE_TEMPLATE", name |-> name, package |-> package, module |-> module]

\* INDEX_TEMPLATE % locals(): the fields the template reads
INDEX_TEMPLATE(package_name, rsts) ==
    [template |-> "INDEX_TEMPLATE", package_name |-> package_name, rsts |-> rsts]

\* "\n   ".join(module+'.rst' for module, name in modules): the toctree's
\* entries, one per line, kept as the sequence of the lines
rsts_reversed(mods) == [i \in 1..Len(mods) |-> mods[Len(mods) + 1 - i][1] \o ".rst"]

rsts_of(mods) == [i \in 1..Len(mods) |-> mods[i][1] \o ".rst"]

\* open(path, 'w') ... f.write(text): creates or truncates the file
WriteFile(path, text) ==
    /\ files' = (path :> text) @@ files
    /\ writes' = Append(writes, path)

\* if not os.path.exists(dir): os.makedirs(dir)
GenMakeDir ==
    /\ gen_pc = "start"
    /\ dirs' = IF gen_in.dir \notin dirs THEN dirs \cup {gen_in.dir} ELSE dirs
    /\ gen_pc' = "loop"
    /\ UNCHANGED <<gen_in, gen_i, files, writes, modelVars>>

\* one iteration of: for module, name in modules
GenWriteModule ==
    /\ gen_pc = "loop"
    /\ gen_i < Len(gen_in.modules)
    /\ gen_in.dir \in dirs
    /\ LET module == gen_in.modules[gen_i + 1][1]
           name == gen_in.modules[gen_i + 1][2]
       IN  WriteFile(join(gen_in.dir, module \o ".rst"),
                     MODULE_TEMPLATE(gen_in.package, module, name))
    /\ gen_i' = gen_i + 1
    /\ UNCHANGED <<gen_pc, gen_in, dirs, modelVars>>

\* after the loop: rsts = ...; write index.rst
GenWriteIndex ==
    /\ gen_pc = "loop"
    /\ gen_i = Len(gen_in.modules)
    /\ gen_in.dir \in dirs
    /\ WriteFile(join(gen_in.dir, "index.rst"),
                 INDEX_TEMPLATE(gen_in.package_name, rsts_of(gen_in.modules)))
    /\ gen_pc' = "done"
    /\ UNCHANGED <<gen_in, gen_i, dirs, modelVars>>

\* genfiles is called with a list of modules, on a file system where dir is
\* absent, or present and empty, or present with the index of an earlier run
InitGen ==
    /\ cse_pc = 0
    /\ cse_ns = EmptyNs
    /\ cyl_pc = 0
    /\ cyl_ns = EmptyNs
    /\ imported = {}
    /\ prev = NoCall
    /\ last = NoCall
    /\ gen_pc = "start"
    /\ \E ms \in ModuleLists :
          gen_in = [package |-> "sasmodels", package_name |-> "Reference",
                    modules |-> ms, dir |-> "api"]
    /\ gen_i = 0
    /\ \E old \in {"absent", "empty", "stale"} :
          /\ dirs = IF old = "absent" THEN {} ELSE {"api"}
          /\ files = IF old = "stale"
                     THEN join("api", "index.rst")
                            :> INDEX_TEMPLATE("Reference", <<"alignment.rst">>)
                     ELSE EmptyNs
    /\ writes = <<>>

NextGen == GenMakeDir \/ GenWriteModule \/ GenWriteIndex

SpecGen == InitGen /\ [][NextGen]_vars

-----------------------------------------------------------------------------
(* Properties of the model descriptors *)

\* the calls under observation
Calls == {c \in {prev, last} : c.fn # "none"}
CseCalls == {c \in Calls : c.fn = "core_shell_ellipsoid.ER"}
CylCalls == {c \in Calls : c.fn = "cylinder.ER"}

\* the two parameters every model has besides those of its table
Implicit == {"scale", "background"}

\* C1, as stated: once tests is defined, every key of every test's overrides
\* is the name of a row of the module's parameters table.
C1_KeysInTable ==
    "tests" \in DOMAIN cse_ns =>
        \A i \in DOMAIN cse_ns["tests"] :
            DOMAIN cse_ns["tests"][i].pars \subseteq ParNames(cse_ns["parameters"])

\* C1, amended: every key of every test's overrides is the name of a row of
\* the parameters table or one of scale and background.
C1_KeysInTableOrImplicit ==
    "tests" \in DOMAIN cse_ns =>
        \A i \in DOMAIN cse_ns["tests"] :
            DOMAIN cse_ns["tests"][i].pars
                \subseteq ParNames(cse_ns["parameters"]) \cup Implicit

\* the module is imported and a test overrides both table rows and scale
C1_Witness ==
    /\ cse_loaded
    /\ \E i \in DOMAIN cse_ns["tests"] :
          {"scale", "sld_solvent", "radius_polar_shell"} \subseteq DOMAIN cse_ns["tests"][i].pars

Interface == {"name", "title", "description", "category", "parameters", "source", "demo", "tests"}

\* the names a cylinder model exposes: its module attributes and INFO's keys
CylExposed == DOMAIN cyl_ns \cup DOMAIN cyl_ns["INFO"]

InBounds(row) == Le(row.lower, Fin(row.default)) /\ Le(Fin(row.default), row.upper)

\* C3: in both parameter tables every row has lower <= default <= upper,
\* an infinite bound leaving its side open.
C3_DefaultsInBounds ==
    /\ "parameters" \in DOMAIN cse_ns =>
          \A i \in DOMAIN cse_ns["parameters"] : InBounds(cse_ns["parameters"][i])
    /\ "INFO" \in DOMAIN cyl_ns =>
          \A i \in DOMAIN cyl_ns["INFO"].parameters : InBounds(cyl_ns["INFO"].parameters[i])

\* both tables are defined, with rows bounded below by 0 and rows unbounded
C3_Witness ==
    /\ "parameters" \in DOMAIN cse_ns
    /\ "INFO" \in DOMAIN cyl_ns
    /\ \E i \in DOMAIN cse_ns["parameters"] : cse_ns["parameters"][i].lower = Fin(0)
    /\ \E i \in DOMAIN cyl_ns["INFO"].parameters : cyl_ns["INFO"].parameters[i].lower = neg_inf

\* C10: demo's keys other than scale and background are exactly the names of
\* the parameters table, and each such value is the row's default and lies
\* within the row's bounds.
C10_DemoAgrees ==
    "demo" \in DOMAIN cse_ns =>
        LET demo == cse_ns["demo"]
            table == cse_ns["parameters"]
        IN  /\ DOMAIN demo \ Implicit = ParNames(table)
            /\ \A n \in ParNames(table) :
                  /\ demo[n] = RowOf(table, n).default
                  /\ Le(RowOf(table, n).lower, Fin(demo[n]))
                  /\ Le(Fin(demo[n]), RowOf(table, n).upper)

\* demo is defined, with scale and background among its keys
C10_Witness ==
    /\ "demo" \in DOMAIN cse_ns
    /\ Implicit \subseteq DOMAIN cse_ns["demo"]
    /\ cse_ns["demo"]["sld_solvent"] = 6300

-----------------------------------------------------------------------------
(* Properties of the ER functions *)

\* C4: the result of core_shell_ellipsoid.ER is the ellipsoid ER of
\* (radius_polar_shell, radius_equat_shell), in that order, whatever the core
\* radii: two calls with the same shell radii return the same value.
C4_ShellOnly ==
    /\ \A c \in CseCalls :
          c.result = ellipsoid_ER(c.args.radius_polar_shell, c.args.radius_equat_shell)
    /\ \A c \in CseCalls, d \in CseCalls :
          /\ c.args.radius_polar_shell = d.args.radius_polar_shell
          /\ c.args.radius_equat_shell = d.args.radius_equat_shell
          => c.result = d.result

\* two successive calls that differ in a core radius only, on a shell whose
\* polar and equatorial radii differ
C4_Witness ==
    /\ prev.fn = "core_shell_ellipsoid.ER"
    /\ last.fn = "core_shell_ellipsoid.ER"
    /\ prev.args.radius_polar_shell = last.args.radius_polar_shell
    /\ prev.args.radius_equat_shell = last.args.radius_equat_shell
    /\ prev.args.radius_polar_core # last.args.radius_polar_core
    /\ last.args.radius_polar_shell # last.args.radius_equat_shell

\* 4 * 0.75*r*(2*r*L + (L+r)*(L+pi*r)), multiplied out: <<rational part, pi part>>
Ddd4(r, L) == <<3 * r * (L * L + 3 * r * L), 3 * r * r * (L + r)>>

\* t = floor(v^(1/3)) for v = (a + b*pi)/4
IsCbrt4(t, v) ==
    LET x == PiDen * v[1] + PiNum * v[2]
    IN  /\ t >= 0
        /\ t * t * t * 4 * PiDen <= x
        /\ x < (t + 1) * (t + 1) * (t + 1) * 4 * PiDen

\* C5: for radius >= 0 and length >= 0, cylinder.ER(radius, length) is
\* 0.5 * ddd^(1/3) with ddd = 0.75*radius*(2*radius*length +
\* (length+radius)*(length+pi*radius)): ddd is that number exactly and twice
\* the result is its cube root, to the unit; ER(20, 400) is positive (73.3).
C5_CylinderER ==
    \A c \in CylCalls :
        LET r == c.args.radius
            L == c.args.length
        IN  r >= 0 /\ L >= 0 =>
              /\ c.result.ddd4 = Ddd4(r, L)
              /\ IsCbrt4(c.result.twice, Ddd4(r, L))
              /\ (r = 20 /\ L = 400 => c.result.twice = 146)

\* ER(radius=20, length=400) has been called and returned 73.3
C5_Witness ==
    /\ last.fn = "cylinder.ER"
    /\ last.args = [radius |-> 20, length |-> 400]
    /\ last.result.twice = 146

\* two calls of the same function with the same arguments return the same
C6_Deterministic ==
    \A c \in Calls, d \in Calls :
        c.fn = d.fn /\ c.args = d.args => c.result = d.result

\* a step that calls ER leaves both module namespaces as they were
C6_NoModuleState ==
    <<prev, last>>' # <<prev, last>> => UNCHANGED <<cse_ns, cyl_ns, cse_pc, cyl_pc>>

ShellInsideCore(a) ==
    \/ a.radius_polar_shell < a.radius_polar_core
    \/ a.radius_equat_shell < a.radius_equat_core

RadiusRows == {"radius_equat_core", "radius_polar_core", "radius_equat_shell", "radius_polar_shell"}

\* C7: a shell radius below the core radius is not rejected: each radius row
\* is bounded by [0, inf] on its own, ER returns a value and no error on such
\* radii, and tests holds such a configuration (polar core 200, polar shell 3).
C7_NotRejected ==
    /\ "parameters" \in DOMAIN cse_ns =>
          \A n \in RadiusRows :
              /\ RowOf(cse_ns["parameters"], n).lower = Fin(0)
              /\ RowOf(cse_ns["parameters"], n).upper = inf
    /\ "tests" \in DOMAIN cse_ns =>
          \E i \in DOMAIN cse_ns["tests"] :
              LET p == cse_ns["tests"][i].pars
              IN  /\ RadiusRows \subseteq DOMAIN p
                  /\ p["radius_polar_core"] = 200000
                  /\ p["radius_polar_shell"] = 3000
    /\ \A c \in CseCalls :
          ShellInsideCore(c.args) =>
              /\ "exc" \notin DOMAIN c.result
              /\ c.result.fn = "ellipsoid.ER"

\* ER has been called on the radii of the test with polar core 200, polar shell 3
C7_Witness ==
    /\ last.fn = "core_shell_ellipsoid.ER"
    /\ last.args = Radii(20000, 200000, 54000, 3000)
    /\ ShellInsideCore(last.args)
    /\ "exc" \notin DOMAIN last.result

-----------------------------------------------------------------------------
(* Properties of genfiles *)

IsPrefix(p, q) == Len(p) <= Len(q) /\ \A i \in 1..Len(p) : p[i] = q[i]

\* the module files of the list, in list order
ModuleFiles ==
    [i \in 1..Len(gen_in.modules) |-> join(gen_in.dir, gen_in.modules[i][1] \o ".rst")]

IndexFile == join(gen_in.dir, "index.rst")

\* C9: genfiles writes in a fixed order: the directory exists before any file
\* is written; the files written are one <module>.rst per entry of modules, in
\* list order, then index.rst, last; the index lists <module>.rst for every
\* entry, once per entry and in list order, each of them a file written before.
C9_WriteOrder ==
    /\ gen_pc \in {"loop", "done"} => gen_in.dir \in dirs
    /\ writes # <<>> => gen_in.dir \in dirs
    /\ IsPrefix(writes, ModuleFiles \o <<IndexFile>>)
    /\ gen_pc = "loop" => Len(writes) = gen_i /\ gen_i <= Len(gen_in.modules)
    /\ gen_pc = "done" =>
          /\ writes = ModuleFiles \o <<IndexFile>>
          /\ files[IndexFile].rsts
               = [i \in 1..Len(gen_in.modules) |-> gen_in.modules[i][1] \o ".rst"]
          /\ \A i \in 1..Len(files[IndexFile].rsts) :
                /\ join(gen_in.dir, files[IndexFile].rsts[i]) \in DOMAIN files
                /\ writes[i] = join(gen_in.dir, files[IndexFile].rsts[i])

\* genfiles has returned, having made the directory's files for the script's
\* own list of modules
C9_Witness ==
    /\ gen_pc = "done"
    /\ gen_in.modules = modules
    /\ Len(writes) = Len(modules) + 1
    /\ writes[Len(writes)] = "api/index.rst"
    /\ writes[1] = "api/__init__.rst"

====
